---------------------------- MODULE Spec2Model ----------------------------
(***************************************************************************)
(* A model of EulerArgandDesmos (src/euler_argand_desmos_style_scale.jsx): *)
(* the component's state and event handlers, the requestAnimationFrame     *)
(* driver of its effect, and the values every render derives from the      *)
(* state (r, the point, the grid steps and ticks, the arc, the draw gates).*)
(*                                                                         *)
(* JavaScript numbers are modelled as decimal floating-point values        *)
(*     [k |-> "fin", m |-> mantissa, e |-> exponent]   (m * 10^e)          *)
(* with |m| <= MaxMant, together with NaN and the two infinities.  Like a  *)
(* double, a value rounds to the format's precision, overflows to an       *)
(* infinity above about 1.797e308 and underflows to 0 below about 1e-324.  *)
(* The sign of zero is not modelled.                                       *)
(***************************************************************************)
EXTENDS Integers, Sequences, FiniteSets, TLC

(***************************************************************************)
(* Bounds of the model.                                                    *)
(***************************************************************************)
\* the largest mantissa a modelled number keeps (its precision)
MaxMant == 9999
\* the driver stops advancing theta at this many radians
MaxTheta == 6
\* animation-frame request ids are drawn from 1..MaxIds
MaxIds == 3
\* ticks stops after this many members (never reached by the calls checked)
MaxTicks == 200
\* the pure functions are called with spans whose mantissa is 10..MaxSpanMant,
MaxSpanMant == 99
\* with scalings by 10^k for k in -MaxScale..MaxScale,
MaxScale == 2
\* and ticks with half-spans of 0..MaxQuarter quarters of the step
MaxQuarter == 20

(***************************************************************************)
(* Numbers.                                                                *)
(***************************************************************************)
NaN == [k |-> "nan", m |-> 0, e |-> 0]
PosInf == [k |-> "inf", m |-> 1, e |-> 0]
NegInf == [k |-> "inf", m |-> -1, e |-> 0]
Zero == [k |-> "fin", m |-> 0, e |-> 0]

IntAbs(n) == IF n < 0 THEN -n ELSE n
IntSign(n) == IF n < 0 THEN -1 ELSE IF n > 0 THEN 1 ELSE 0
IntMin(a, b) == IF a < b THEN a ELSE b
IntMax(a, b) == IF a > b THEN a ELSE b

\* 10^n for n in 0..9
Pow10Int(n) == <<1, 10, 100, 1000, 10000, 100000, 1000000, 10000000, 100000000, 1000000000>>[n + 1]

\* the number of decimal digits of n >= 0
Digits(n) ==
    IF n < 10 THEN 1 ELSE IF n < 100 THEN 2 ELSE IF n < 1000 THEN 3
    ELSE IF n < 10000 THEN 4 ELSE IF n < 100000 THEN 5 ELSE IF n < 1000000 THEN 6
    ELSE IF n < 10000000 THEN 7 ELSE IF n < 100000000 THEN 8
    ELSE IF n < 1000000000 THEN 9 ELSE 10

\* a >= 0 with its last d digits rounded away (half away from zero)
RoundDrop(a, d) == IF d = 0 THEN a ELSE (a + 5 * Pow10Int(d - 1)) \div Pow10Int(d)

RECURSIVE DropFor(_, _)
\* the fewest digits to round away for a to fit the precision
DropFor(a, d) == IF RoundDrop(a, d) <= MaxMant \/ d >= 9 THEN d ELSE DropFor(a, d + 1)

RECURSIVE Strip(_, _)
\* the canonical <<mantissa, exponent>>: no trailing zero in the mantissa
Strip(a, e) == IF a # 0 /\ a % 10 = 0 THEN Strip(a \div 10, e + 1) ELSE <<a, e>>

\* the double nearest to m * 10^e: rounded, and overflowing or underflowing
Norm(m, e) ==
    IF m = 0 THEN Zero
    ELSE LET d == DropFor(IntAbs(m), 0)
             s == Strip(RoundDrop(IntAbs(m), d), e + d)
             a == s[1]
             order == Digits(a) + s[2] - 1
             lead == a * Pow10Int(4 - Digits(a))
         IN  IF order > 308 \/ (order = 308 /\ lead >= 1798)
             THEN [k |-> "inf", m |-> IntSign(m), e |-> 0]
             ELSE IF order < -324 THEN Zero
             ELSE [k |-> "fin", m |-> IntSign(m) * a, e |-> s[2]]

Num(m, e) == Norm(m, e)
FromInt(n) == Norm(n, 0)

IsFinite(x) == x.k = "fin"
IsNaN(x) == x.k = "nan"
\* floor(log10 |x|) of a finite non-zero x
Order(x) == Digits(IntAbs(x.m)) + x.e - 1
SignOf(x) == IF x.k = "nan" THEN 0 ELSE IntSign(x.m)

Neg(x) == IF x.k = "nan" THEN NaN ELSE [x EXCEPT !.m = -x.m]
MathAbs(x) == IF x.k = "nan" THEN NaN ELSE [x EXCEPT !.m = IntAbs(x.m)]

\* a * b
Mul(a, b) ==
    IF a.k = "nan" \/ b.k = "nan" THEN NaN
    ELSE IF a.k = "inf" \/ b.k = "inf"
         THEN IF a.m = 0 \/ b.m = 0 THEN NaN
              ELSE [k |-> "inf", m |-> IntSign(a.m) * IntSign(b.m), e |-> 0]
    ELSE Norm(a.m * b.m, a.e + b.e)

\* a / b
Div(a, b) ==
    IF a.k = "nan" \/ b.k = "nan" THEN NaN
    ELSE IF a.k = "inf"
         THEN IF b.k = "inf" THEN NaN
              ELSE [k |-> "inf", m |-> a.m * (IF b.m < 0 THEN -1 ELSE 1), e |-> 0]
    ELSE IF b.k = "inf" THEN Zero
    ELSE IF b.m = 0
         THEN IF a.m = 0 THEN NaN ELSE [k |-> "inf", m |-> IntSign(a.m), e |-> 0]
    ELSE IF a.m = 0 THEN Zero
    ELSE LET s == 9 - Digits(IntAbs(a.m))
             q == (IntAbs(a.m) * Pow10Int(s)) \div IntAbs(b.m)
         IN  Norm(IntSign(a.m) * IntSign(b.m) * q, a.e - b.e - s)

\* a + b
Add(a, b) ==
    IF a.k = "nan" \/ b.k = "nan" THEN NaN
    ELSE IF a.k = "inf"
         THEN IF b.k = "inf" /\ b.m # a.m THEN NaN ELSE a
    ELSE IF b.k = "inf" THEN b
    ELSE IF a.m = 0 THEN b
    ELSE IF b.m = 0 THEN a
    ELSE LET lo == IntMin(a.e, b.e)
             hi == IntMax(Order(a), Order(b))
         IN  IF hi - lo + 1 > 9
             THEN (IF Order(a) > Order(b) THEN a ELSE b)
             ELSE Norm(a.m * Pow10Int(a.e - lo) + b.m * Pow10Int(b.e - lo), lo)

Sub(a, b) == Add(a, Neg(b))

\* a < b, a <= b, a > b, a >= b: false when either is NaN
Lt(a, b) == a.k # "nan" /\ b.k # "nan" /\ a # b /\ SignOf(Sub(a, b)) < 0
Leq(a, b) == a.k # "nan" /\ b.k # "nan" /\ (a = b \/ SignOf(Sub(a, b)) < 0)
Gt(a, b) == Lt(b, a)
Geq(a, b) == Leq(b, a)

MathMax(a, b) == IF a.k = "nan" \/ b.k = "nan" THEN NaN ELSE IF Lt(a, b) THEN b ELSE a
MathMin(a, b) == IF a.k = "nan" \/ b.k = "nan" THEN NaN ELSE IF Lt(b, a) THEN b ELSE a

\* the integer part of |x| for a finite x, as an integer mantissa at exponent 0
\* or above
IntPart(x) ==
    IF x.e >= 0 THEN x
    ELSE IF -x.e > 9 THEN Zero
    ELSE Norm(IntSign(x.m) * (IntAbs(x.m) \div Pow10Int(-x.e)), 0)

MathTrunc(x) == IF x.k # "fin" THEN x ELSE IntPart(x)
MathFloor(x) ==
    IF x.k # "fin" THEN x
    ELSE IF IntPart(x) = x \/ x.m > 0 THEN IntPart(x)
    ELSE Sub(IntPart(x), FromInt(1))
MathCeil(x) ==
    IF x.k # "fin" THEN x
    ELSE IF IntPart(x) = x \/ x.m < 0 THEN IntPart(x)
    ELSE Add(IntPart(x), FromInt(1))

\* the integer a finite integral x with |x| < 10^9 stands for
IntOf(x) == IF x.m = 0 THEN 0 ELSE x.m * Pow10Int(x.e)

\* Math.pow(10, n), n an integer given as a number (as everywhere in the program)
MathPow10(n) ==
    IF n.k = "nan" THEN NaN
    ELSE IF n.k = "inf" THEN (IF n.m > 0 THEN PosInf ELSE Zero)
    ELSE IF n.m # 0 /\ Order(n) > 3 THEN (IF n.m > 0 THEN PosInf ELSE Zero)
    ELSE Norm(1, IntOf(IntPart(n)))

\* Math.floor(Math.log10(x)) as a number
FloorLog10(x) ==
    IF x.k = "nan" \/ SignOf(x) < 0 THEN NaN
    ELSE IF x.k = "inf" THEN PosInf
    ELSE IF x.m = 0 THEN NegInf
    ELSE FromInt(Order(x))

\* a % b of JavaScript: the remainder takes the sign of the dividend
JsRem(a, b) ==
    IF a.k # "fin" \/ b.k = "nan" \/ (b.k = "fin" /\ b.m = 0) THEN NaN
    ELSE IF b.k = "inf" THEN a
    ELSE Sub(a, Mul(MathTrunc(Div(a, b)), b))


(***************************************************************************)
(* Math.sin and Math.cos.  The angle is reduced to thousandths of a radian *)
(* in one turn and the value comes from Bhaskara's rational approximation  *)
(* (absolute error below 0.002), in thousandths.                           *)
(***************************************************************************)
PiMilli == 3142
TwoPiMilli == 6283
HalfPiMilli == 1571

\* a finite x in thousandths, rounded
ToMilli(x) ==
    IF x.e >= -3 THEN x.m * Pow10Int(x.e + 3)
    ELSE IF -3 - x.e > 9 THEN 0
    ELSE IntSign(x.m) * RoundDrop(IntAbs(x.m), -3 - x.e)

\* 1000 * sin(a / 1000) for a in 0..PiMilli
HalfWave(a) ==
    LET p == a * (PiMilli - a)
        den == (5 * PiMilli * PiMilli - 4 * p) \div 40
    IN  IntMin(1000, (16 * p * 25 + den \div 2) \div den)

SinMilli(a) ==
    LET t == a % TwoPiMilli
    IN  IF t <= PiMilli THEN HalfWave(t) ELSE -HalfWave(t - PiMilli)

MathSin(x) == IF x.k # "fin" THEN NaN ELSE Norm(SinMilli(ToMilli(x)), -3)
MathCos(x) == IF x.k # "fin" THEN NaN ELSE Norm(SinMilli(ToMilli(x) + HalfPiMilli), -3)

(***************************************************************************)
(* parseInt(text, 10) and parseFloat(text).  A text is a tuple of          *)
(* one-character strings.                                                  *)
(***************************************************************************)
DigitChars == {"0", "1", "2", "3", "4", "5", "6", "7", "8", "9"}
DigitVal(c) ==
    CASE c = "0" -> 0 [] c = "1" -> 1 [] c = "2" -> 2 [] c = "3" -> 3 [] c = "4" -> 4
      [] c = "5" -> 5 [] c = "6" -> 6 [] c = "7" -> 7 [] c = "8" -> 8 [] c = "9" -> 9

RECURSIVE SkipSpace(_, _)
\* the first index at or after i that holds no white space
SkipSpace(s, i) == IF i <= Len(s) /\ s[i] = " " THEN SkipSpace(s, i + 1) ELSE i

RECURSIVE DigitRun(_, _)
\* the length of the run of digits that starts at index i
DigitRun(s, i) == IF i <= Len(s) /\ s[i] \in DigitChars THEN 1 + DigitRun(s, i + 1) ELSE 0

RECURSIVE DigitsNum(_, _, _, _)
\* the number written by the n digits from index i on, after the digits in acc
DigitsNum(s, i, n, acc) ==
    IF n = 0 THEN acc
    ELSE DigitsNum(s, i + 1, n - 1, Add(Mul(acc, FromInt(10)), FromInt(DigitVal(s[i]))))

RECURSIVE DigitsInt(_, _, _, _)
\* the same as an integer, capped (an exponent)
DigitsInt(s, i, n, acc) ==
    IF n = 0 THEN acc
    ELSE DigitsInt(s, i + 1, n - 1, IntMin(9999, acc * 10 + DigitVal(s[i])))

SignAt(s, i) == IF i <= Len(s) /\ s[i] = "-" THEN -1 ELSE 1
AfterSign(s, i) == IF i <= Len(s) /\ s[i] \in {"-", "+"} THEN i + 1 ELSE i

parseInt(s) ==
    LET i0 == SkipSpace(s, 1)
        i == AfterSign(s, i0)
        n == DigitRun(s, i)
    IN  IF n = 0 THEN NaN
        ELSE Mul(FromInt(SignAt(s, i0)), DigitsNum(s, i, n, Zero))

parseFloat(s) ==
    LET i0 == SkipSpace(s, 1)
        i == AfterSign(s, i0)
        nInt == DigitRun(s, i)
        j == i + nInt
        dot == j <= Len(s) /\ s[j] = "."
        nFrac == IF dot THEN DigitRun(s, j + 1) ELSE 0
        p == IF dot /\ nInt + nFrac > 0 THEN j + 1 + nFrac ELSE j
        hasE == p <= Len(s) /\ s[p] \in {"e", "E"}
        q == AfterSign(s, p + 1)
        nExp == IF hasE THEN DigitRun(s, q) ELSE 0
        ex == SignAt(s, p + 1) * DigitsInt(s, q, nExp, 0)
        mant == DigitsNum(s, j + 1, nFrac, DigitsNum(s, i, nInt, Zero))
    IN  IF nInt + nFrac = 0 THEN NaN
        ELSE IF mant.k # "fin" \/ mant.m = 0 THEN Mul(FromInt(SignAt(s, i0)), mant)
        ELSE Norm(SignAt(s, i0) * mant.m, mant.e + ex - nFrac)

\* e.target.value || '0'
OrZero(s) == IF s = <<>> THEN <<"0">> ELSE s

(***************************************************************************)
(* The component: its state (useState, useRef) and what the browser holds  *)
(* for it.                                                                 *)
(***************************************************************************)
VARIABLES
    theta,            \* radians (unbounded)
    mantissa,         \* m of r = m * 10^exp
    exp,              \* the exponent as entered
    auto,             \* whether the rotation driver is on
    showProjections,
    showArc,
    zoom,             \* pixels per unit
    rafRef,           \* rafRef.current: 0 (null) or the id of the last request
    pending,          \* the animation-frame requests the browser will still fire
    effAuto,          \* the value of auto the effect last ran with: "none", "on", "off"
    fnArgs,           \* a call of one of the pure functions: its arguments ...
    fnRes,            \* ... and its result
    fnDone            \* whether the call has returned

vars == <<theta, mantissa, exp, auto, showProjections, showArc, zoom, rafRef, pending,
          effAuto, fnArgs, fnRes, fnDone>>
stateVars == <<theta, mantissa, exp, auto, showProjections, showArc, zoom>>
driverVars == <<rafRef, pending, effAuto>>
fnVars == <<fnArgs, fnRes, fnDone>>

width == 760
height == 560
center == [x |-> Div(FromInt(width), FromInt(2)), y |-> Div(FromInt(height), FromInt(2))]

One == FromInt(1)
\* Math.PI and 2 * Math.PI
Pi == Norm(PiMilli, -3)
TwoPi == Norm(TwoPiMilli, -3)

(***************************************************************************)
(* The values a render derives from the state.                             *)
(***************************************************************************)
\* the exponent r is computed with
clampedExpNoClamp(e) == IF IsFinite(e) THEN MathTrunc(e) ELSE Zero
clampedExp(e) ==
    IF IsFinite(e)
    THEN MathMax(FromInt(-300), MathMin(FromInt(300), MathTrunc(e)))
    ELSE Zero
clampedMantissa(m) == IF IsFinite(m) THEN m ELSE Zero
resolveMagnitude(m, e) == Mul(clampedMantissa(m), MathPow10(clampedExp(e)))
r == resolveMagnitude(mantissa, exp)

cos == MathCos(theta)
sin == MathSin(theta)
point == [x |-> Mul(r, cos), y |-> Mul(r, sin)]

unit == zoom
toPx(x, y) == [x |-> Add(center.x, Mul(x, unit)), y |-> Sub(center.y, Mul(y, unit))]
pPx == toPx(point.x, point.y)

\* DESMOS-LIKE GRID: the 1-2-5 x 10^k step
niceRaw(spanUnits, targetLines) == Div(spanUnits, targetLines)
nicePow10Ceil(spanUnits, targetLines) ==
    LET x == MathMax(Num(1, -30), niceRaw(spanUnits, targetLines))
        fl == FloorLog10(x)
    IN  MathPow10(IF IsFinite(x) /\ x # MathPow10(fl) THEN Add(fl, One) ELSE fl)
nicePow10(spanUnits, targetLines) ==
    MathPow10(FloorLog10(MathMax(Num(1, -30), niceRaw(spanUnits, targetLines))))
niceNorm(spanUnits, targetLines) ==
    Div(niceRaw(spanUnits, targetLines), nicePow10(spanUnits, targetLines))
niceStep(spanUnits, targetLines) ==
    LET norm == niceNorm(spanUnits, targetLines)
        nice == IF Lt(norm, Num(15, -1)) THEN 1
                ELSE IF Lt(norm, Num(35, -1)) THEN 2
                ELSE IF Lt(norm, Num(75, -1)) THEN 5
                ELSE 10
    IN  Mul(FromInt(nice), nicePow10(spanUnits, targetLines))

\* visible world ranges
xHalfSpan == Div(center.x, unit)
yHalfSpan == Div(center.y, unit)
xStep == niceStep(xHalfSpan, FromInt(10))
yStep == niceStep(yHalfSpan, FromInt(10))

\* +(v.toFixed(12)): v rounded to 12 decimals
toFixed12(v) ==
    IF v.k # "fin" \/ v.e >= -12 THEN v
    ELSE IF -12 - v.e > 9 THEN Zero
    ELSE Norm(IntSign(v.m) * RoundDrop(IntAbs(v.m), -12 - v.e), -12)

\* Math.ceil(half / step), the count of ticks on each side of 0
tickCount(step, half) == MathCeil(Div(half, step))

RECURSIVE ticksLoop(_, _, _, _)
\* for (v = start; v <= end + 1e-12; v += step) out.push(+(v.toFixed(12)))
ticksLoop(v, end, step, out) ==
    IF Leq(v, Add(end, Num(1, -12))) /\ Len(out) < MaxTicks
    THEN ticksLoop(Add(v, step), end, step, Append(out, toFixed12(v)))
    ELSE out

\* the tick array centered at 0
ticks(step, half) ==
    LET start == Neg(Mul(tickCount(step, half), step))
        end == Mul(tickCount(step, half), step)
    IN  ticksLoop(start, end, step, <<>>)

xTicks == ticks(xStep, xHalfSpan)
yTicks == ticks(yStep, yHalfSpan)

\* Angle arc
arcWorldRadius == MathMin(One, r)
arcRadius == Mul(unit, MathMin(One, r))
arcEndWorld ==
    [x |-> Mul(MathCos(theta), MathMin(One, r)), y |-> Mul(MathSin(theta), MathMin(One, r))]
arcEnd == toPx(arcEndWorld.x, arcEndWorld.y)
largeArc == IF Gt(MathAbs(theta), Pi) THEN 1 ELSE 0
sweep == IF Geq(theta, Zero) THEN 0 ELSE 1
arcPath ==
    [mx |-> Add(center.x, arcRadius), my |-> center.y, rx |-> arcRadius, ry |-> arcRadius,
     largeArc |-> largeArc, sweep |-> sweep, ex |-> arcEnd.x, ey |-> arcEnd.y]

\* Avoid rendering a massive dashed circle
radiusPx == Mul(unit, MathAbs(r))
showRCircle ==
    IsFinite(radiusPx) /\ Lt(radiusPx, Mul(FromInt(IntMax(width, height)), FromInt(3)))

\* which of the conditional elements the returned SVG holds
drawRCircle == showRCircle /\ Gt(MathAbs(Sub(r, One)), Num(1, -12))
drawArc == showArc
drawProjectionsUngated == showProjections
drawProjections == showProjections /\ IsFinite(pPx.x) /\ IsFinite(pPx.y)
drawVector == IsFinite(pPx.x) /\ IsFinite(pPx.y)
Drawn ==
    {"grid", "axes", "tickLabels", "unitCircle"}
        \cup (IF drawRCircle THEN {"rCircle"} ELSE {})
        \cup (IF drawArc THEN {"arc"} ELSE {})
        \cup (IF drawProjections THEN {"projections"} ELSE {})
        \cup (IF drawVector THEN {"vector", "point"} ELSE {})

\* the value bound to the theta range input
sliderValue == JsRem(theta, TwoPi)

(***************************************************************************)
(* The texts the inputs deliver (e.target.value).                          *)
(***************************************************************************)
ThetaSliderTexts == { <<"1", ".", "5", "7", "1">>, <<"-", "2">> }
ThetaBoxTexts == { <<"4">>, <<>> }
MantissaTexts == { <<"-", "5">>, <<>>, <<"9", "e", "7">> }
ExpTexts == { <<>>, <<"2">>, <<"4", "0", "0">>, <<".", "5">> }
ZoomSliderTexts == { <<"5">>, <<"3", "0", "0">> }
ZoomBoxTexts ==
    { <<>>, <<"0">>, <<"-", "3">>, <<"0", ".", "5">>, <<"1", "0", "0", "0">>, <<"a">> }
\* t - last of a frame, in milliseconds
FrameMillis == {1250, 2500}

(***************************************************************************)
(* The event handlers.                                                     *)
(***************************************************************************)
SetThetaSlider(txt) ==
    /\ theta' = parseFloat(txt)
    /\ UNCHANGED <<mantissa, exp, auto, showProjections, showArc, zoom>>
    /\ UNCHANGED <<driverVars, fnVars>>

SetThetaBox(txt) ==
    /\ LET v == parseFloat(txt)
       IN  theta' = IF ~IsNaN(v) THEN v ELSE theta
    /\ UNCHANGED <<mantissa, exp, auto, showProjections, showArc, zoom>>
    /\ UNCHANGED <<driverVars, fnVars>>

SetMantissa(txt) ==
    /\ mantissa' = parseFloat(txt)
    /\ UNCHANGED <<theta, exp, auto, showProjections, showArc, zoom>>
    /\ UNCHANGED <<driverVars, fnVars>>

SetExp(txt) ==
    /\ exp' = parseInt(OrZero(txt))
    /\ UNCHANGED <<theta, mantissa, auto, showProjections, showArc, zoom>>
    /\ UNCHANGED <<driverVars, fnVars>>

SetZoomSlider(txt) ==
    /\ zoom' = parseInt(txt)
    /\ UNCHANGED <<theta, mantissa, exp, auto, showProjections, showArc>>
    /\ UNCHANGED <<driverVars, fnVars>>

\* the zoom the number box leaves: v replaces it only when the guard accepts v
zoomBoxAcceptsZero(v) == ~IsNaN(v) /\ Geq(v, Zero)
zoomBoxAccepts(v) == ~IsNaN(v) /\ Gt(v, Zero)
zoomAfterBox(z, txt) ==
    LET v == parseInt(OrZero(txt))
    IN  IF zoomBoxAccepts(v) THEN v ELSE z

SetZoomBox(txt) ==
    /\ zoom' = zoomAfterBox(zoom, txt)
    /\ UNCHANGED <<theta, mantissa, exp, auto, showProjections, showArc>>
    /\ UNCHANGED <<driverVars, fnVars>>

\* the effect's dependency [auto] is unchanged since it last ran
EffectSynced == effAuto = (IF auto THEN "on" ELSE "off")

\* Rotate / Pause.  React flushes a pending effect before it handles the next
\* update, so a click finds the effect run.
ToggleAuto ==
    /\ EffectSynced
    /\ auto' = ~auto
    /\ UNCHANGED <<theta, mantissa, exp, showProjections, showArc, zoom>>
    /\ UNCHANGED <<driverVars, fnVars>>

SetShowProjections(checked) ==
    /\ showProjections' = checked
    /\ UNCHANGED <<theta, mantissa, exp, auto, showArc, zoom>>
    /\ UNCHANGED <<driverVars, fnVars>>

SetShowArc(checked) ==
    /\ showArc' = checked
    /\ UNCHANGED <<theta, mantissa, exp, auto, showProjections, zoom>>
    /\ UNCHANGED <<driverVars, fnVars>>

(***************************************************************************)
(* The rotation driver.  The browser's request ids only need to differ     *)
(* from the ids still held (pending ones and rafRef.current), so a new id  *)
(* is the least such one.                                                  *)
(***************************************************************************)
FreeIds(pend, ref) == {i \in 1..MaxIds : i \notin pend \cup {ref}}
NewId(pend, ref) == CHOOSE i \in FreeIds(pend, ref) : \A j \in FreeIds(pend, ref) : i <= j

\* cancelAnimationFrame(id)
cancelAnimationFrame(pend, id) == pend \ {id}

\* the cleanup the effect returned when it ran with auto on
effectCleanup(pend, ref) == IF ref # 0 THEN cancelAnimationFrame(pend, ref) ELSE pend

\* useEffect(..., [auto]): the previous run's cleanup, then the body
RunEffect ==
    /\ ~EffectSynced
    /\ LET cleaned == IF effAuto = "on" THEN effectCleanup(pending, rafRef) ELSE pending
       IN  IF ~auto
           THEN /\ pending' = (IF rafRef # 0 THEN cancelAnimationFrame(cleaned, rafRef)
                               ELSE cleaned)
                /\ rafRef' = rafRef
           ELSE /\ FreeIds(cleaned, rafRef) # {}
                /\ rafRef' = NewId(cleaned, rafRef)
                /\ pending' = cleaned \cup {NewId(cleaned, rafRef)}
    /\ effAuto' = (IF auto THEN "on" ELSE "off")
    /\ UNCHANGED <<stateVars, fnVars>>

\* theta after a frame dt seconds after the last one
advance(th, ms) == Add(th, Mul(Div(FromInt(ms), FromInt(1000)), Num(8, -1)))

\* the frame callback without the assignment to rafRef.current
tickNoRef(id, ms) ==
    /\ id \in pending
    /\ Leq(advance(theta, ms), FromInt(MaxTheta))
    /\ FreeIds(pending \ {id}, rafRef) # {}
    /\ theta' = advance(theta, ms)
    /\ pending' = (pending \ {id}) \cup {NewId(pending \ {id}, rafRef)}
    /\ UNCHANGED <<mantissa, exp, auto, showProjections, showArc, zoom>>
    /\ UNCHANGED <<rafRef, effAuto, fnVars>>

\* the browser fires request id: the frame callback
tick(id, ms) ==
    /\ id \in pending
    /\ Leq(advance(theta, ms), FromInt(MaxTheta))
    /\ FreeIds(pending \ {id}, rafRef) # {}
    /\ theta' = advance(theta, ms)
    /\ rafRef' = NewId(pending \ {id}, rafRef)
    /\ pending' = (pending \ {id}) \cup {NewId(pending \ {id}, rafRef)}
    /\ UNCHANGED <<mantissa, exp, auto, showProjections, showArc, zoom>>
    /\ UNCHANGED <<effAuto, fnVars>>

NoCall == [fn |-> "none", a |-> Zero, b |-> Zero, k |-> Zero]
NoResult == [num |-> Zero, num2 |-> Zero, seq |-> <<>>]

\* the first render, its effect not yet run
InitState ==
    /\ theta = Zero
    /\ mantissa = One
    /\ exp = Zero
    /\ auto = FALSE
    /\ showProjections = TRUE
    /\ showArc = TRUE
    /\ zoom = FromInt(100)
    /\ rafRef = 0
    /\ pending = {}
    /\ effAuto = "none"

Init ==
    /\ InitState
    /\ fnArgs = NoCall
    /\ fnRes = NoResult
    /\ fnDone = FALSE

Next ==
    \/ \E txt \in ThetaSliderTexts : SetThetaSlider(txt)
    \/ \E txt \in ThetaBoxTexts : SetThetaBox(txt)
    \/ \E txt \in MantissaTexts : SetMantissa(txt)
    \/ \E txt \in ExpTexts : SetExp(txt)
    \/ \E txt \in ZoomSliderTexts : SetZoomSlider(txt)
    \/ \E txt \in ZoomBoxTexts : SetZoomBox(txt)
    \/ ToggleAuto
    \/ \E checked \in BOOLEAN : SetShowProjections(checked)
    \/ \E checked \in BOOLEAN : SetShowArc(checked)
    \/ RunEffect
    \/ \E id \in pending, ms \in FrameMillis : tick(id, ms)

Spec == Init /\ [][Next]_vars

(***************************************************************************)
(* The pure functions on their own: resolveMagnitude (the useMemo of r),   *)
(* niceStep, ticks, and the two composed as for an axis.  A behaviour of   *)
(* SpecFn is one call: Init draws the arguments, the action applies the    *)
(* function.                                                               *)
(***************************************************************************)
MagMantissas ==
    {NaN, PosInf, NegInf, Zero, One, Num(-5, 0), Num(25, -1), Num(9, 7), Num(1, 308)}
MagExponents ==
    {NaN, PosInf, NegInf, Zero, Num(2, 0), Num(-3, 0), Num(25, -1), Num(-25, -1),
     Num(300, 0), Num(-300, 0), Num(3005, -1), Num(2999, -1), Num(-2999, -1),
     Num(301, 0), Num(-301, 0), Num(400, 0), Num(-400, 0), Num(1, 10)}

SpanMants == 10..MaxSpanMant
\* spans around the 1e-30 floor of niceStep, and of ordinary size
NiceSpans == {Num(m, e) : m \in SpanMants, e \in {-33, -31, -30, -29, -1}}
NiceTargets == {FromInt(10), FromInt(4)}
Scalings == {FromInt(k) : k \in -MaxScale..MaxScale}

\* half-spans of an axis at ordinary zooms and at a zoom of about 1e15
AxisHalves == {Num(m, e) : m \in SpanMants, e \in {-14, -1, 0, 1}}

TickSteps == {Num(1, 0), Num(5, -1), Num(2, 1), Num(3, -1), Num(7, 0), Num(2, -13), Num(5, -14)}
TickHalves(step) == {Mul(step, Num(25 * q, -2)) : q \in 0..MaxQuarter}

FnCalls ==
    {[fn |-> "resolveMagnitude", a |-> m, b |-> e, k |-> Zero] :
        m \in MagMantissas, e \in MagExponents}
    \cup {[fn |-> "niceStep", a |-> sp, b |-> n, k |-> k] :
            sp \in NiceSpans, n \in NiceTargets, k \in Scalings}
    \cup {[fn |-> "axisTicks", a |-> h, b |-> FromInt(10), k |-> Zero] : h \in AxisHalves}
    \cup UNION {{[fn |-> "ticks", a |-> st, b |-> h, k |-> Zero] : h \in TickHalves(st)} :
                  st \in TickSteps}

InitFn ==
    /\ InitState
    /\ fnArgs \in FnCalls
    /\ fnRes = NoResult
    /\ fnDone = FALSE

CallResolveMagnitude ==
    /\ ~fnDone /\ fnArgs.fn = "resolveMagnitude"
    /\ fnRes' = [NoResult EXCEPT !.num = resolveMagnitude(fnArgs.a, fnArgs.b)]
    /\ fnDone' = TRUE
    /\ UNCHANGED <<fnArgs, stateVars, driverVars>>

\* niceStep(span, n) and niceStep(span * 10^k, n)
CallNiceStep ==
    /\ ~fnDone /\ fnArgs.fn = "niceStep"
    /\ fnRes' = [NoResult EXCEPT
                    !.num = niceStep(fnArgs.a, fnArgs.b),
                    !.num2 = niceStep(Mul(fnArgs.a, MathPow10(fnArgs.k)), fnArgs.b)]
    /\ fnDone' = TRUE
    /\ UNCHANGED <<fnArgs, stateVars, driverVars>>

\* step = niceStep(half); ticks(step, half)
CallAxisTicks ==
    /\ ~fnDone /\ fnArgs.fn = "axisTicks"
    /\ fnRes' = [NoResult EXCEPT
                    !.num = niceStep(fnArgs.a, fnArgs.b),
                    !.seq = ticks(niceStep(fnArgs.a, fnArgs.b), fnArgs.a)]
    /\ fnDone' = TRUE
    /\ UNCHANGED <<fnArgs, stateVars, driverVars>>

CallTicks ==
    /\ ~fnDone /\ fnArgs.fn = "ticks"
    /\ fnRes' = [NoResult EXCEPT !.seq = ticks(fnArgs.a, fnArgs.b)]
    /\ fnDone' = TRUE
    /\ UNCHANGED <<fnArgs, stateVars, driverVars>>

NextFn ==
    \/ CallResolveMagnitude
    \/ CallNiceStep
    \/ CallAxisTicks
    \/ CallTicks

SpecFn == InitFn /\ [][NextFn]_vars

(***************************************************************************)
(* The claims.                                                             *)
(***************************************************************************)

\* e' of C1, from the claim's words: trunc(e) clamped into [-300, 300] for a
\* finite e, and 0 otherwise
C1_ExpectedExp(e) ==
    IF e.k # "fin" THEN 0
    ELSE IF Geq(e, FromInt(300)) THEN 300
    ELSE IF Leq(e, FromInt(-300)) THEN -300
    ELSE IF e.e >= 0 THEN e.m * Pow10Int(e.e)
    ELSE IF -e.e > 9 THEN 0
    ELSE IntSign(e.m) * (IntAbs(e.m) \div Pow10Int(-e.e))

\* C1: for every mantissa m and exponent e (NaN, the infinities, fractional
\* and out-of-range exponents included) resolveMagnitude(m, e) is m' * 10^e',
\* where m' is m if m is finite and 0 otherwise and e' is trunc(e) clamped into
\* [-300, 300] if e is finite and 0 otherwise; the exponent used is an integer
\* in [-300, 300]; resolveMagnitude(NaN, e) = 0 and resolveMagnitude(m, NaN) = m.
C1_MagnitudeContract ==
    (fnDone /\ fnArgs.fn = "resolveMagnitude") =>
        LET m == fnArgs.a
            e == fnArgs.b
            mP == IF m.k = "fin" THEN m ELSE Zero
            eP == C1_ExpectedExp(e)
        IN  /\ eP \in -300..300
            /\ clampedExp(e) = FromInt(eP)
            /\ fnRes.num = Norm(mP.m, mP.e + eP)
            /\ (IsNaN(m) => fnRes.num = Zero)
            /\ (IsNaN(e) => fnRes.num = mP)

\* a call with a fractional exponent above the range: 2.5 and 300.5 give 2.5e300
C1_Witness ==
    /\ fnDone /\ fnArgs.fn = "resolveMagnitude"
    /\ fnArgs.a = Num(25, -1) /\ fnArgs.b = Num(3005, -1)
    /\ fnRes.num = Num(25, 299)

\* C2: at most one animation-frame callback is pending at any moment, and a
\* fired callback schedules at most one successor.
C2_DriverNeverOverlaps ==
    [][/\ Cardinality(pending) <= 1
       /\ Cardinality(pending') <= 1
       /\ Cardinality(pending' \ pending) <= 1]_vars

\* the driver is on, a frame has fired and its successor (the second request)
\* is the one pending
C2_Witness == auto /\ effAuto = "on" /\ rafRef = 2 /\ pending = {2}

\* a step by which the user sets theta
UserSetsTheta ==
    \/ \E txt \in ThetaSliderTexts : SetThetaSlider(txt)
    \/ \E txt \in ThetaBoxTexts : SetThetaBox(txt)

\* C3: once the effect has run with auto off, no frame callback is pending and
\* theta changes only by the user's input, until the effect runs with auto on.
C3_DriverCancellable ==
    [][effAuto = "off" => (pending = {} /\ (theta' # theta => UserSetsTheta))]_vars

\* the driver ran (it advanced theta to 3, which no input sets) and was then
\* switched off and cleaned up
C3_Witness ==
    /\ ~auto /\ effAuto = "off" /\ rafRef # 0 /\ pending = {}
    /\ theta = FromInt(3)

\* C4: zoom is a positive number in every reachable state, and a value the
\* number box rejects (empty, not a number, 0, negative) leaves zoom unchanged.
C4_ZoomPositive ==
    /\ Gt(zoom, Zero)
    /\ \A txt \in ZoomBoxTexts :
          LET v == parseInt(OrZero(txt))
          IN  (IsNaN(v) \/ Leq(v, Zero)) => zoomAfterBox(zoom, txt) = zoom

\* the number box has set a zoom outside the slider's range
C4_Witness == zoom = FromInt(1000)

\* C5: for step > 0 and half >= 0, ticks(step, half) is an ascending sequence
\* spaced by step that contains 0, is symmetric about 0, and whose first and
\* last members are <= -half and >= half.
C5_TicksCoverSymmetric ==
    (fnDone /\ fnArgs.fn = "ticks") =>
        LET out == fnRes.seq
            step == fnArgs.a
            half == fnArgs.b
        IN  /\ Len(out) >= 1
            /\ \A i \in 1..(Len(out) - 1) : out[i + 1] = Add(out[i], step)
            /\ \E i \in 1..Len(out) : out[i] = Zero
            /\ \A i \in 1..Len(out) : \E j \in 1..Len(out) : out[j] = Neg(out[i])
            /\ Leq(out[1], Neg(half))
            /\ Geq(out[Len(out)], half)

\* the two calls of niceStep a scale-invariance check compares
C6_Raw == niceRaw(fnArgs.a, fnArgs.b)
C6_RawScaled == niceRaw(Mul(fnArgs.a, MathPow10(fnArgs.k)), fnArgs.b)
C6_ScaleInvariant ==
    /\ fnRes.num2 = Mul(fnRes.num, MathPow10(fnArgs.k))
    /\ Geq(niceNorm(fnArgs.a, fnArgs.b), One)
    /\ Lt(niceNorm(fnArgs.a, fnArgs.b), FromInt(10))
    /\ Geq(niceNorm(Mul(fnArgs.a, MathPow10(fnArgs.k)), fnArgs.b), One)
    /\ Lt(niceNorm(Mul(fnArgs.a, MathPow10(fnArgs.k)), fnArgs.b), FromInt(10))

C7_ArcWithinUnitCircle ==
    /\ arcWorldRadius = MathMin(One, MathAbs(r))
    /\ Geq(arcRadius, Zero) /\ Leq(arcRadius, zoom)
    /\ Leq(Add(Mul(arcEndWorld.x, arcEndWorld.x), Mul(arcEndWorld.y, arcEndWorld.y)),
           Num(101, -2))

\* C8: the value bound to the angle slider lies within [-pi, pi].
C8_SliderValueWithinPi == Geq(sliderValue, Neg(Pi)) /\ Leq(sliderValue, Pi)

\* C9: the vector, the point marker and the projections are rendered only when
\* both pixel coordinates of the point are finite, and the dashed magnitude
\* circle only when zoom * |r| is finite and below 3 * max(width, height),
\* whatever the display toggles are.
C9_DrawGates ==
    /\ (Drawn \cap {"vector", "point", "projections"} # {})
          => (IsFinite(pPx.x) /\ IsFinite(pPx.y))
    /\ ("rCircle" \in Drawn)
          => /\ IsFinite(Mul(zoom, MathAbs(r)))
             /\ Lt(Mul(zoom, MathAbs(r)), FromInt(3 * IntMax(width, height)))

\* the point overflows the pixel range while the projections are switched on:
\* they, the vector and the magnitude circle are left out
C9_Witness ==
    /\ ~IsFinite(pPx.x) /\ IsFinite(r) /\ showProjections
    /\ Drawn \cap {"vector", "point", "projections", "rCircle"} = {}

\* C10: for every half > 0 with half / 10 >= 1e-30 and step = niceStep(half, 10),
\* n = ceil(half / step) satisfies 7 <= n <= 18 and ticks(step, half) has
\* between 15 and 37 members.
C10_GridBounded ==
    (/\ fnDone /\ fnArgs.fn = "axisTicks"
     /\ Gt(fnArgs.a, Zero) /\ Geq(Div(fnArgs.a, FromInt(10)), Num(1, -30)))
        => /\ Geq(tickCount(fnRes.num, fnArgs.a), FromInt(7))
           /\ Leq(tickCount(fnRes.num, fnArgs.a), FromInt(18))
           /\ Len(fnRes.seq) >= 15
           /\ Len(fnRes.seq) <= 37

=============================================================================
